---- MODULE Spec2Model ----
(***************************************************************************)
(* Model of the auction engine (class Auction), the balance ledger (class  *)
(* BalanceManager), the repository calls the engine makes and the host     *)
(* route that starts an auction.                                           *)
(*                                                                         *)
(* An async method is cut at its awaits: the code between two awaits is    *)
(* one action, and an invocation suspended on an await is an element of    *)
(* `flows`.  Everything a handler does between two awaits, including the   *)
(* methods it calls synchronously, is computed by operators from state     *)
(* records to state records, applied by the action.                        *)
(***************************************************************************)
EXTENDS Integers, Sequences, FiniteSets, Bags, TLC

VARIABLES
    currentRound,   \* Auction.currentRound
    bids,           \* Auction.bids: Map userId -> Bid
    sortedBids,     \* Auction.sortedBids: Bid[]
    roundEndTime,   \* Auction.roundEndTime (ms)
    roundTimer,     \* Auction.roundTimer: the handle of the timer set last, or null
    isActive,       \* Auction.isActive
    balances,       \* BalanceManager.balances: Map userId -> number
    now,            \* Date.now() (ms since the engine was constructed)
    timers,         \* pending setTimeout callbacks, by the time they are due
    flows,          \* invocations suspended on a repository call
    dbBalances,     \* users collection: id -> balance
    dbWinners,      \* auction record: winners[]
    dbStatus,       \* auction record: status
    events,         \* callbacks emitted and repository writes made so far
    bIn,            \* total debited from the ledger by accepted bids
    bBack,          \* total refunded by endAuction
    audit,          \* whether bIn and bBack are kept
    doc             \* recoverFromDB: the document it walks and its loop locals

vars == << currentRound, bids, sortedBids, roundEndTime, roundTimer, isActive,
           balances, now, timers, flows, dbBalances, dbWinners, dbStatus,
           events, bIn, bBack, audit, doc >>

(***************************************************************************)
(* Inputs and bounds                                                       *)
(***************************************************************************)
Users == {"A", "B"}

\* the order in which the users collection returns its documents
UserOrder == << "A", "B" >>

\* the amounts a caller may pass to placeBid
Amounts == {0, 10, 20, 60}

\* the users collection when the auction is created
InitialBalances == [u \in Users |-> IF u = "A" THEN 30 ELSE 10]

\* the plan the auction is created with (time in seconds)
Plan == << [round_number |-> 1, count_of_gifts |-> 1, time |-> 6],
           [round_number |-> 2, count_of_gifts |-> 2, time |-> 3] >>

\* the clock advances in steps of TickMs and stops at MaxTime
TickMs == 4000
MaxTime == 12000

\* at most MaxFlows invocations are suspended at once
MaxFlows == 2

\* the host calls the start route while endAuction was entered fewer than
\* MaxEnds times
MaxEnds == 2

\* a repository call returns within MaxLatency steps of the clock
MaxLatency == 1
\* restarts of the host process
MaxRecoveries == 1
\* the clock's horizon for a process that was restarted
MaxTimeRecover == 16000
\* the largest balance the ledger is driven to
MaxBalance == 60
\* the plans and winner counts recoverFromDB is given: rounds per plan, gifts
\* per round, persisted winners
MaxRounds == 3
MaxGifts == 2
MaxWinners == 7

ANTI_SNIPE_WINDOW == 5
ANTI_SNIPE_EXTEND == 10

NoTimer == -1
\* recoverFromDB is not running
NoDoc == [counts |-> << >>, winners |-> 0, i |-> 0, winnersCount |-> 0,
          currentRound |-> 0]
NoResult == [success |-> FALSE, error |-> "none", newBid |-> 0]

(***************************************************************************)
(* Helpers                                                                 *)
(***************************************************************************)
Min(a, b) == IF a <= b THEN a ELSE b

Range(s) == {s[i] : i \in DOMAIN s}

RECURSIVE SumSeq(_)
SumSeq(s) == IF s = << >> THEN 0 ELSE Head(s) + SumSeq(Tail(s))

\* Array.prototype.slice(0, n) for n >= 0
SliceTo(s, n) == SubSeq(s, 1, Min(n, Len(s)))

\* variant: splice(0, 1) whatever n is
DropFirstOne(s, n) == SubSeq(s, Min(1, Len(s)) + 1, Len(s))

\* the array after splice(0, n) for n >= 0
DropFirst(s, n) == SubSeq(s, Min(n, Len(s)) + 1, Len(s))

\* Map.delete / Map.set on a map held as a function
MapDelete(m, k) == [x \in DOMAIN m \ {k} |-> m[x]]
MapSet(m, k, v) == [x \in DOMAIN m \cup {k} |-> IF x = k THEN v ELSE m[x]]
EmptyMap == [x \in {} |-> 0]

(***************************************************************************)
(* BalanceManager (the ledger)                                             *)
(***************************************************************************)
\* BalanceManager.get: the balance, 0 for a user the map does not hold
get(bal, userId) == IF userId \in DOMAIN bal THEN bal[userId] ELSE 0

\* BalanceManager.add
add(bal, userId, amount) == MapSet(bal, userId, get(bal, userId) + amount)

\* BalanceManager.remove: the value it returns
removeOk(bal, userId, amount) == ~(get(bal, userId) < amount)

\* variant: remove without its balance check
removeUnchecked(bal, userId, amount) ==
    MapSet(bal, userId, get(bal, userId) - amount)

\* BalanceManager.remove: the map it leaves
remove(bal, userId, amount) ==
    IF get(bal, userId) < amount
    THEN bal
    ELSE MapSet(bal, userId, get(bal, userId) - amount)

\* BalanceManager.loadBalances: clear, then set every record in order
RECURSIVE SetRecords(_, _)
SetRecords(bal, records) ==
    IF records = << >> THEN bal
    ELSE SetRecords(MapSet(bal, Head(records).user_id, Head(records).balance),
                    Tail(records))

loadBalancesLedger(records) == SetRecords(EmptyMap, records)

\* variant: entries with balance 0 are not exported
RECURSIVE ExportPositive(_, _)
ExportPositive(bal, order) ==
    IF order = << >> THEN << >>
    ELSE (IF Head(order) \in DOMAIN bal /\ bal[Head(order)] # 0
          THEN << [user_id |-> Head(order), balance |-> bal[Head(order)]] >>
          ELSE << >>) \o ExportPositive(bal, Tail(order))

\* BalanceManager.exportBalances: one record per entry of the map
RECURSIVE ExportFrom(_, _)
ExportFrom(bal, order) ==
    IF order = << >> THEN << >>
    ELSE (IF Head(order) \in DOMAIN bal
          THEN << [user_id |-> Head(order), balance |-> bal[Head(order)]] >>
          ELSE << >>) \o ExportFrom(bal, Tail(order))

exportBalances(bal) == ExportFrom(bal, UserOrder)

(***************************************************************************)
(* Repository (mongo)                                                      *)
(***************************************************************************)
\* loadBalances: every user document as a (user_id, balance) record
loadBalances(db) == ExportFrom(db, UserOrder)

\* saveBalances: updateOne per record, on the documents that exist
RECURSIVE saveBalances(_, _)
saveBalances(db, records) ==
    IF records = << >> THEN db
    ELSE LET r == Head(records)
             db1 == IF r.user_id \in DOMAIN db
                    THEN [db EXCEPT ![r.user_id] = r.balance]
                    ELSE db
         IN  saveBalances(db1, Tail(records))

(***************************************************************************)
(* The sorted leaderboard                                                  *)
(***************************************************************************)
\* Array.prototype.findIndex(b => b.userId === userId): 0 when there is none
RECURSIVE FindFrom(_, _, _)
FindFrom(sorted, userId, i) ==
    IF i > Len(sorted) THEN 0
    ELSE IF sorted[i].userId = userId THEN i
    ELSE FindFrom(sorted, userId, i + 1)

findIndex(sorted, userId) == FindFrom(sorted, userId, 1)

RemoveAt(s, i) == SubSeq(s, 1, i - 1) \o SubSeq(s, i + 1, Len(s))
InsertAt(s, i, x) == SubSeq(s, 1, i - 1) \o << x >> \o SubSeq(s, i, Len(s))

\* variant: the comparison without its timestamp tie-break
StaysBeforeAmountOnly(entry, bid) == entry.amount - bid.amount > 0

\* the comparison of the binary search: the entry at mid stays before bid
StaysBefore(entry, bid) ==
    LET cmp == entry.amount - bid.amount
    IN  cmp > 0 \/ (cmp = 0 /\ entry.timestamp < bid.timestamp)

\* the binary search of updateSortedBids; left and right are 0-based as in
\* the code and the result is the 0-based position to insert at
RECURSIVE BinarySearch(_, _, _, _)
BinarySearch(sorted, bid, left, right) ==
    IF left < right
    THEN LET mid == (left + right) \div 2
         IN  IF StaysBefore(sorted[mid + 1], bid)
             THEN BinarySearch(sorted, bid, mid + 1, right)
             ELSE BinarySearch(sorted, bid, left, mid)
    ELSE left

\* Auction.updateSortedBids
updateSortedBids(sorted, bid) ==
    LET oldIndex == findIndex(sorted, bid.userId)
        removed == IF oldIndex # 0 THEN RemoveAt(sorted, oldIndex) ELSE sorted
        left == BinarySearch(removed, bid, 0, Len(removed))
    IN  InsertAt(removed, left + 1, bid)

\* Auction.getLeaderboard(limit) for limit >= 0
getLeaderboard(sorted, limit) ==
    LET top == SliceTo(sorted, limit)
    IN  [i \in 1..Len(top) |->
            [userId |-> top[i].userId, amount |-> top[i].amount, position |-> i]]

(***************************************************************************)
(* The engine.  A state record holds every variable; the operators below   *)
(* are the synchronous stretches of the methods of class Auction.          *)
(***************************************************************************)
St == [ currentRound |-> currentRound, bids |-> bids, sortedBids |-> sortedBids,
        roundEndTime |-> roundEndTime, roundTimer |-> roundTimer,
        isActive |-> isActive, balances |-> balances, now |-> now,
        timers |-> timers, flows |-> flows, dbBalances |-> dbBalances,
        dbWinners |-> dbWinners, dbStatus |-> dbStatus, result |-> NoResult,
        events |-> events, bIn |-> bIn, bBack |-> bBack ]

Apply(s) ==
    /\ currentRound' = s.currentRound
    /\ bids' = s.bids
    /\ sortedBids' = s.sortedBids
    /\ roundEndTime' = s.roundEndTime
    /\ roundTimer' = s.roundTimer
    /\ isActive' = s.isActive
    /\ balances' = s.balances
    /\ now' = s.now
    /\ timers' = s.timers
    /\ flows' = s.flows
    /\ dbBalances' = s.dbBalances
    /\ dbWinners' = s.dbWinners
    /\ dbStatus' = s.dbStatus
    /\ events' = s.events
    /\ bIn' = IF audit THEN s.bIn ELSE bIn
    /\ bBack' = IF audit THEN s.bBack ELSE bBack
    /\ audit' = audit
    /\ doc' = doc

\* an invocation suspended at the await named pc; winners and records are the
\* locals it holds across the await, age the clock steps it has waited
Flow(pc, winners, records) ==
    [pc |-> pc, winners |-> winners, records |-> records, age |-> 0]

Suspend(s, f) == [s EXCEPT !.flows = @ (+) SetToBag({f})]
Resume(s, f) == [s EXCEPT !.flows = @ (-) SetToBag({f})]

\* clearTimeout(handle): the pending callback of that handle, if any, is dropped
clearTimeout(pending, handle) ==
    IF BagIn(handle, pending) THEN pending (-) SetToBag({handle}) ELSE pending

\* setTimeout(callback, remaining): a callback due at now + remaining
setTimeout(pending, due) == pending (+) SetToBag({due})

\* variant: the loop runs to i <= currentRound
getGiftsAwardedInclusive(round) ==
    SumSeq([i \in 1..Min(round + 1, Len(Plan)) |-> Plan[i].count_of_gifts])

\* Auction.getGiftsAwarded read with currentRound = round, for round <= |plan|
RECURSIVE getGiftsAwarded(_)
getGiftsAwarded(round) ==
    IF round = 0 THEN 0
    ELSE getGiftsAwarded(round - 1) + Plan[round].count_of_gifts

\* winnersData of endRound: the winners with their gift numbers
winnersData(winners, giftNumberOffset) ==
    [i \in 1..Len(winners) |->
        [user_id |-> winners[i].userId,
         stars |-> winners[i].amount,
         gift_number |-> giftNumberOffset + (i - 1) + 1]]

\* the loop of endRound that deletes every winner from bids
RECURSIVE deleteWinners(_, _)
deleteWinners(m, winners) ==
    IF winners = << >> THEN m
    ELSE deleteWinners(MapDelete(m, Head(winners).userId), Tail(winners))

\* variant: endRound without its isActive guard
endRoundUnguarded(s) ==
    IF s.currentRound >= Len(Plan) THEN s
    ELSE LET winnersCount == Plan[s.currentRound + 1].count_of_gifts
             winners == SliceTo(s.sortedBids, winnersCount)
             giftNumberOffset == getGiftsAwarded(s.currentRound)
             data == winnersData(winners, giftNumberOffset)
         IN  Suspend([s EXCEPT !.bids = deleteWinners(@, winners),
                               !.sortedBids = DropFirst(@, winnersCount)],
                     Flow("commitRound", data, << >>))

\* Auction.endRound up to its await of commitRound.  plan[currentRound] is
\* undefined for currentRound >= |plan| and reading its count_of_gifts throws
\* before anything is changed.
endRound(s) ==
    IF ~s.isActive THEN s
    ELSE IF s.currentRound >= Len(Plan) THEN s
    ELSE LET winnersCount == Plan[s.currentRound + 1].count_of_gifts
             winners == SliceTo(s.sortedBids, winnersCount)
             giftNumberOffset == getGiftsAwarded(s.currentRound)
             data == winnersData(winners, giftNumberOffset)
         IN  Suspend([s EXCEPT !.bids = deleteWinners(@, winners),
                               !.sortedBids = DropFirst(@, winnersCount)],
                     Flow("commitRound", data, << >>))

\* scheduleRoundEnd recording a handle without arming the timer
scheduleRoundEndUnarmed(s) ==
    LET s1 == IF s.roundTimer # NoTimer
              THEN [s EXCEPT !.timers = clearTimeout(@, s.roundTimer)]
              ELSE s
        remaining == s1.roundEndTime - s1.now
    IN  IF remaining <= 0
        THEN endRound(s1)
        ELSE [s1 EXCEPT !.roundTimer = s1.now + remaining]

\* Auction.scheduleRoundEnd
scheduleRoundEnd(s) ==
    LET s1 == IF s.roundTimer # NoTimer
              THEN [s EXCEPT !.timers = clearTimeout(@, s.roundTimer)]
              ELSE s
        remaining == s1.roundEndTime - s1.now
    IN  IF remaining <= 0
        THEN endRound(s1)
        ELSE [s1 EXCEPT !.roundTimer = s1.now + remaining,
                        !.timers = setTimeout(@, s1.now + remaining)]

\* variant: the remaining bids are dropped without a refund
refundNone(bal, m, order) == bal

\* the refund loop of endAuction
RECURSIVE refundAll(_, _, _)
refundAll(bal, m, order) ==
    IF order = << >> THEN bal
    ELSE refundAll(IF Head(order) \in DOMAIN m
                   THEN add(bal, Head(order), m[Head(order)].amount)
                   ELSE bal,
                   m, Tail(order))

\* the sum of the live bids, which the refund loop of endAuction returns
TotalBid(m) ==
    SumSeq([i \in 1..Len(UserOrder) |->
              IF UserOrder[i] \in DOMAIN m THEN m[UserOrder[i]].amount ELSE 0])

\* Auction.endAuction up to its first await.  saveBalances returns at once
\* when there is no record, and the invocation then waits on the status write.
endAuction(s) ==
    LET s1 == IF s.roundTimer # NoTimer
              THEN [s EXCEPT !.timers = clearTimeout(@, s.roundTimer),
                             !.roundTimer = NoTimer]
              ELSE s
        refunded == refundAll(s1.balances, s1.bids, UserOrder)
        balanceRecords == exportBalances(refunded)
        s2 == [s1 EXCEPT !.isActive = FALSE,
                         !.events.ends = @ + 1,
                         !.balances = refunded,
                         !.bBack = @ + TotalBid(s1.bids),
                         !.bids = EmptyMap]
    IN  IF balanceRecords = << >>
        THEN Suspend(s2, Flow("finishStatus", << >>, << >>))
        ELSE Suspend(s2, Flow("saveBalances", << >>, balanceRecords))

\* Auction.startRound up to its first await
startRound(s) ==
    IF s.currentRound >= Len(Plan)
    THEN endAuction(s)
    ELSE Suspend(s, Flow("loadBalances", << >>, << >>))

\* variant: bids and the leaderboard are cleared at the start of every round
startRoundLoadedAlwaysClears(s) ==
    LET records == loadBalances(s.dbBalances)
        s1 == [s EXCEPT !.balances = loadBalancesLedger(records)]
        s2 == [s1 EXCEPT !.bids = EmptyMap, !.sortedBids = << >>]
    IN  IF s2.currentRound >= Len(Plan) THEN s2
        ELSE LET roundDuration == Plan[s2.currentRound + 1].time * 1000
             IN  Suspend([s2 EXCEPT !.roundEndTime = s2.now + roundDuration,
                                    !.isActive = TRUE],
                         Flow("activeStatus", << >>, << >>))

\* Auction.startRound from the return of loadBalances to the await of the
\* status write.  plan[currentRound] is undefined for currentRound >= |plan|
\* and reading its time throws, after the ledger was reloaded.
startRoundLoaded(s) ==
    LET records == loadBalances(s.dbBalances)
        s1 == [s EXCEPT !.balances = loadBalancesLedger(records)]
        s2 == IF s1.currentRound = 0
              THEN [s1 EXCEPT !.bids = EmptyMap, !.sortedBids = << >>]
              ELSE s1
    IN  IF s2.currentRound >= Len(Plan) THEN s2
        ELSE LET roundDuration == Plan[s2.currentRound + 1].time * 1000
             IN  Suspend([s2 EXCEPT !.roundEndTime = s2.now + roundDuration,
                                    !.isActive = TRUE],
                         Flow("activeStatus", << >>, << >>))

\* Auction.startRound from the return of the status write to its end
startRoundWritten(s) ==
    scheduleRoundEnd([s EXCEPT !.dbStatus = "active"])

\* variant: currentRound is not advanced after the append
endRoundCommittedNoAdvance(s, data) ==
    LET s1 == [s EXCEPT !.dbWinners = @ \o data,
                        !.events.roundEnds = Append(@, s.currentRound)]
    IN  IF s1.currentRound < Len(Plan) THEN startRound(s1) ELSE endAuction(s1)

\* variant: onRoundEnd is emitted after currentRound is advanced
endRoundCommittedLateCallback(s, data) ==
    LET s1 == [s EXCEPT !.dbWinners = @ \o data,
                        !.currentRound = @ + 1,
                        !.events.roundEnds = Append(@, s.currentRound + 1)]
    IN  IF s1.currentRound < Len(Plan) THEN startRound(s1) ELSE endAuction(s1)

\* Auction.commitRound and the rest of endRound after it
endRoundCommitted(s, data) ==
    LET s1 == [s EXCEPT !.dbWinners = @ \o data,
                        !.events.roundEnds = Append(@, s.currentRound),
                        !.currentRound = @ + 1]
    IN  IF s1.currentRound < Len(Plan) THEN startRound(s1) ELSE endAuction(s1)

\* Auction.endAuction from the return of saveBalances to the await of the
\* status write
endAuctionSaved(s, records) ==
    Suspend([s EXCEPT !.dbBalances = saveBalances(@, records),
                      !.events.flushes = @ + 1],
            Flow("finishStatus", << >>, << >>))

\* Auction.endAuction from the return of the status write to its end
endAuctionWritten(s) ==
    [s EXCEPT !.dbStatus = "finished",
              !.events.finished = @ + 1,
              !.events.auctionEnds = @ + 1]

\* the result records of placeBid; the error kinds stand for its four messages
Rejected(kind) == [success |-> FALSE, error |-> kind, newBid |-> 0]
Accepted(amount) == [success |-> TRUE, error |-> "none", newBid |-> amount]

\* variant: the checks without the comparison to the live bid
placeBidRejectionNoFloor(s, userId, amount) ==
    LET currentBid == IF userId \in DOMAIN s.bids THEN s.bids[userId].amount ELSE 0
        needed == amount - currentBid
        balance == get(s.balances, userId)
    IN  IF ~s.isActive THEN "NotActive"
        ELSE IF amount <= 0 THEN "NonPositive"
        ELSE IF balance < needed THEN "InsufficientFunds"
        ELSE "none"

\* variant: the third check written amount < currentBid
placeBidRejectionEqualAllowed(s, userId, amount) ==
    LET currentBid == IF userId \in DOMAIN s.bids THEN s.bids[userId].amount ELSE 0
        needed == amount - currentBid
        balance == get(s.balances, userId)
    IN  IF ~s.isActive THEN "NotActive"
        ELSE IF amount <= 0 THEN "NonPositive"
        ELSE IF amount < currentBid THEN "NotHigher"
        ELSE IF balance < needed THEN "InsufficientFunds"
        ELSE "none"

\* Auction.placeBid, its four checks: the kind of the first that rejects the
\* call, "none" when the call passes them all
placeBidRejection(s, userId, amount) ==
    LET currentBid == IF userId \in DOMAIN s.bids THEN s.bids[userId].amount ELSE 0
        needed == amount - currentBid
        balance == get(s.balances, userId)
    IN  IF ~s.isActive THEN "NotActive"
        ELSE IF amount <= 0 THEN "NonPositive"
        ELSE IF amount <= currentBid THEN "NotHigher"
        ELSE IF balance < needed THEN "InsufficientFunds"
        ELSE "none"

\* variant: every accepted bid of the last seconds moves the deadline
placeBidStoreAnyLateBid(s, userId, amount) ==
    LET currentBid == IF userId \in DOMAIN s.bids THEN s.bids[userId].amount ELSE 0
        needed == amount - currentBid
        remaining == s.roundEndTime - s.now
        isLastSeconds == remaining > 0 /\ remaining < ANTI_SNIPE_WINDOW * 1000
        bid == [userId |-> userId, amount |-> amount, timestamp |-> s.now]
        s1 == [s EXCEPT !.balances = remove(@, userId, needed),
                        !.bids = MapSet(@, userId, bid),
                        !.sortedBids = updateSortedBids(@, bid),
                        !.bIn = @ + needed,
                        !.result = Accepted(amount)]
    IN  IF isLastSeconds
        THEN scheduleRoundEnd(
                 [s1 EXCEPT !.roundEndTime = s1.now + ANTI_SNIPE_EXTEND * 1000])
        ELSE s1

\* variant: the ledger is debited the whole amount, not the raise
placeBidStoreDebitsAmount(s, userId, amount) ==
    LET remaining == s.roundEndTime - s.now
        isLastSeconds == remaining > 0 /\ remaining < ANTI_SNIPE_WINDOW * 1000
        winnersCount == IF s.currentRound < Len(Plan)
                        THEN Plan[s.currentRound + 1].count_of_gifts
                        ELSE 0
        currentMinWinning ==
            IF isLastSeconds /\ winnersCount > 0 /\ Len(s.sortedBids) >= winnersCount
            THEN s.sortedBids[winnersCount].amount
            ELSE 0
        bid == [userId |-> userId, amount |-> amount, timestamp |-> s.now]
        s1 == [s EXCEPT !.balances = remove(@, userId, amount),
                        !.bids = MapSet(@, userId, bid),
                        !.sortedBids = updateSortedBids(@, bid),
                        !.bIn = @ + amount,
                        !.result = Accepted(amount)]
    IN  IF isLastSeconds /\ amount > currentMinWinning /\ currentMinWinning > 0
        THEN scheduleRoundEnd(
                 [s1 EXCEPT !.roundEndTime = s1.now + ANTI_SNIPE_EXTEND * 1000])
        ELSE s1

\* variant: the ledger is debited the whole amount by a plain subtraction
placeBidStoreSubtracts(s, userId, amount) ==
    LET remaining == s.roundEndTime - s.now
        isLastSeconds == remaining > 0 /\ remaining < ANTI_SNIPE_WINDOW * 1000
        winnersCount == IF s.currentRound < Len(Plan)
                        THEN Plan[s.currentRound + 1].count_of_gifts
                        ELSE 0
        currentMinWinning ==
            IF isLastSeconds /\ winnersCount > 0 /\ Len(s.sortedBids) >= winnersCount
            THEN s.sortedBids[winnersCount].amount
            ELSE 0
        bid == [userId |-> userId, amount |-> amount, timestamp |-> s.now]
        s1 == [s EXCEPT !.balances = MapSet(@, userId, get(@, userId) - amount),
                        !.bids = MapSet(@, userId, bid),
                        !.sortedBids = updateSortedBids(@, bid),
                        !.bIn = @ + amount,
                        !.result = Accepted(amount)]
    IN  IF isLastSeconds /\ amount > currentMinWinning /\ currentMinWinning > 0
        THEN scheduleRoundEnd(
                 [s1 EXCEPT !.roundEndTime = s1.now + ANTI_SNIPE_EXTEND * 1000])
        ELSE s1

\* Auction.placeBid after its checks: the anti-snipe condition is read before
\* the bid is stored, the deadline is moved after it
placeBidStore(s, userId, amount) ==
    LET currentBid == IF userId \in DOMAIN s.bids THEN s.bids[userId].amount ELSE 0
        needed == amount - currentBid
        remaining == s.roundEndTime - s.now
        isLastSeconds == remaining > 0 /\ remaining < ANTI_SNIPE_WINDOW * 1000
        winnersCount == IF s.currentRound < Len(Plan)
                        THEN Plan[s.currentRound + 1].count_of_gifts
                        ELSE 0
        currentMinWinning ==
            IF isLastSeconds /\ winnersCount > 0 /\ Len(s.sortedBids) >= winnersCount
            THEN s.sortedBids[winnersCount].amount
            ELSE 0
        bid == [userId |-> userId, amount |-> amount, timestamp |-> s.now]
        s1 == [s EXCEPT !.balances = remove(@, userId, needed),
                        !.bids = MapSet(@, userId, bid),
                        !.sortedBids = updateSortedBids(@, bid),
                        !.bIn = @ + needed,
                        !.result = Accepted(amount)]
    IN  IF isLastSeconds /\ amount > currentMinWinning /\ currentMinWinning > 0
        THEN scheduleRoundEnd(
                 [s1 EXCEPT !.roundEndTime = s1.now + ANTI_SNIPE_EXTEND * 1000])
        ELSE s1

\* variant: the bid is stored before the balance is checked
placeBidStoresFirst(s, userId, amount) ==
    LET kind == placeBidRejection(s, userId, amount)
        bid == [userId |-> userId, amount |-> amount, timestamp |-> s.now]
    IN  IF kind = "none" THEN placeBidStore(s, userId, amount)
        ELSE IF kind = "InsufficientFunds"
             THEN [s EXCEPT !.bids = MapSet(@, userId, bid),
                            !.sortedBids = updateSortedBids(@, bid),
                            !.result = Rejected(kind)]
        ELSE [s EXCEPT !.result = Rejected(kind)]

\* Auction.placeBid
placeBid(s, userId, amount) ==
    LET kind == placeBidRejection(s, userId, amount)
    IN  IF kind = "none"
        THEN placeBidStore(s, userId, amount)
        ELSE [s EXCEPT !.result = Rejected(kind)]

(***************************************************************************)
(* Actions                                                                 *)
(***************************************************************************)
NoEvents == [roundEnds |-> << >>, ends |-> 0, flushes |-> 0, finished |-> 0,
             auctionEnds |-> 0, recoveries |-> 0, persisted |-> 0]

\* the state after createAuction: the record is pending, the engine is new
InitEngine ==
    /\ currentRound = 0
    /\ bids = EmptyMap
    /\ sortedBids = << >>
    /\ roundEndTime = 0
    /\ roundTimer = NoTimer
    /\ isActive = FALSE
    /\ balances = EmptyMap
    /\ now = 0
    /\ timers = EmptyBag
    /\ flows = EmptyBag
    /\ dbBalances = InitialBalances
    /\ dbWinners = << >>
    /\ dbStatus = "pending"
    /\ events = NoEvents
    /\ bIn = 0
    /\ bBack = 0

\* POST /api/auction/:id/start
HostStart ==
    /\ ~isActive
    /\ events.ends < MaxEnds
    /\ BagCardinality(flows) < MaxFlows
    /\ Apply(startRound(St))

\* loadBalances returns to startRound
LoadBalancesDone ==
    \E f \in BagToSet(flows) :
        /\ f.pc = "loadBalances"
        /\ Apply(startRoundLoaded(Resume(St, f)))

\* the write of status=active returns to startRound
ActiveStatusDone ==
    \E f \in BagToSet(flows) :
        /\ f.pc = "activeStatus"
        /\ Apply(startRoundWritten(Resume(St, f)))

\* POST /api/auction/:id/bid: placeBid returns a BidResult and the state it
\* leaves
PlaceBid ==
    \E userId \in Users, amount \in Amounts :
        LET returned == placeBid(St, userId, amount)
        IN  /\ returned.result.success \in BOOLEAN
            /\ Apply(returned)

\* a pending deadline timer fires and calls endRound
TimerFire ==
    \E due \in BagToSet(timers) :
        /\ due <= now
        /\ BagCardinality(flows) < MaxFlows \/ ~isActive
        /\ Apply(endRound([St EXCEPT !.timers = @ (-) SetToBag({due})]))

\* the append of the winners returns to endRound
CommitRoundDone ==
    \E f \in BagToSet(flows) :
        /\ f.pc = "commitRound"
        /\ Apply(endRoundCommitted(Resume(St, f), f.winners))

\* saveBalances returns to endAuction
SaveBalancesDone ==
    \E f \in BagToSet(flows) :
        /\ f.pc = "saveBalances"
        /\ Apply(endAuctionSaved(Resume(St, f), f.records))

\* the write of status=finished returns to endAuction
FinishStatusDone ==
    \E f \in BagToSet(flows) :
        /\ f.pc = "finishStatus"
        /\ Apply(endAuctionWritten(Resume(St, f)))

Older(f) == [f EXCEPT !.age = @ + 1]

\* time passes; a timer that is due fires before the clock moves again, and a
\* repository call returns within MaxLatency steps of the clock
Tick ==
    /\ now + TickMs <= MaxTime
    /\ \A due \in BagToSet(timers) : due > now
    /\ \A f \in BagToSet(flows) : f.age < MaxLatency
    /\ Apply([St EXCEPT !.now = @ + TickMs, !.flows = BagOfAll(Older, @)])

Next ==
    \/ HostStart
    \/ LoadBalancesDone
    \/ ActiveStatusDone
    \/ PlaceBid
    \/ TimerFire
    \/ CommitRoundDone
    \/ SaveBalancesDone
    \/ FinishStatusDone
    \/ Tick

Init == InitEngine /\ audit = FALSE /\ doc = NoDoc

Spec == Init /\ [][Next]_vars

\* the same program with the totals debited and refunded kept
InitAudit == InitEngine /\ audit = TRUE /\ doc = NoDoc

SpecAudit == InitAudit /\ [][Next]_vars

\* a repository call rejects.  No method of Auction catches: the invocation
\* waiting on the call ends at its await, and so does every caller awaiting it;
\* what was assigned before the await stays and nothing after it runs.
rejected(s, f) == Resume(s, f)

\* the repository call of a suspended invocation fails
RepositoryFails ==
    \E f \in BagToSet(flows) :
        /\ f.pc \in {"loadBalances", "activeStatus", "commitRound",
                     "saveBalances", "finishStatus"}
        /\ Apply(rejected(St, f))

NextFail ==
    \/ Next
    \/ RepositoryFails

\* the same program with a repository whose calls can fail
SpecFail == Init /\ [][NextFail]_vars

\* variant: the loop stops only when the count is negative
RECURSIVE derivedRoundFromStrict(_, _, _, _)
derivedRoundFromStrict(counts, i, winnersCount, round) ==
    IF i >= Len(counts) THEN round
    ELSE IF winnersCount < 0 THEN round
    ELSE derivedRoundFromStrict(counts, i + 1, winnersCount - counts[i + 1],
                                i + 1)

\* the loop of recoverFromDB over the plan: the round it derives from the
\* number of persisted winners, for the gift counts of a plan
RECURSIVE derivedRoundFrom(_, _, _, _)
derivedRoundFrom(counts, i, winnersCount, round) ==
    IF i >= Len(counts) THEN round
    ELSE IF winnersCount <= 0 THEN round
    ELSE derivedRoundFrom(counts, i + 1, winnersCount - counts[i + 1], i + 1)

derivedRound(counts, winnersCount) ==
    derivedRoundFrom(counts, 0, winnersCount, 0)

\* new Auction(...) in a new process: the fields of the constructor, an empty
\* ledger, no timer and no invocation left from the process that stopped
newAuction(s) ==
    [s EXCEPT !.currentRound = 0, !.bids = EmptyMap, !.sortedBids = << >>,
              !.roundEndTime = 0, !.roundTimer = NoTimer, !.isActive = FALSE,
              !.balances = EmptyMap, !.timers = EmptyBag, !.flows = EmptyBag]

\* AuctionManager.recoverFromDB for the persisted auction, up to the first
\* await of startRound.  The round the loop derives is a local that the
\* constructor is not given.
recoverFromDB(s) ==
    LET derived == derivedRound([i \in 1..Len(Plan) |-> Plan[i].count_of_gifts],
                                Len(s.dbWinners))
    IN  startRound(newAuction(s))

\* the host process stops and is started again: main calls recoverFromDB,
\* which finds the auction when its persisted status is active
Recover ==
    /\ dbStatus = "active"
    /\ events.recoveries < MaxRecoveries
    /\ Apply(recoverFromDB([St EXCEPT !.events.recoveries = @ + 1,
                                      !.events.persisted = Len(dbWinners)]))

\* time passes in the restarted process, beyond the horizon of the first
TickRecover ==
    /\ events.recoveries > 0
    /\ now + TickMs > MaxTime
    /\ now + TickMs <= MaxTimeRecover
    /\ \A due \in BagToSet(timers) : due > now
    /\ \A f \in BagToSet(flows) : f.age < MaxLatency
    /\ Apply([St EXCEPT !.now = @ + TickMs, !.flows = BagOfAll(Older, @)])

NextRecover ==
    \/ Next
    \/ Recover
    \/ TickRecover

\* the same program on a host that can stop and restart
SpecRecover == Init /\ [][NextRecover]_vars

\* POST /api/auction/:id/start, sent once for the pending auction
StartLive ==
    /\ dbStatus = "pending"
    /\ flows = EmptyBag
    /\ Apply(startRound(St))

\* time passes for as long as a deadline timer is pending, with no horizon: the
\* clock of a run that is left to finish.  A repository call returns before
\* the clock moves again
TickLive ==
    /\ timers # EmptyBag
    /\ flows = EmptyBag
    /\ \A due \in BagToSet(timers) : due > now
    /\ Apply([St EXCEPT !.now = @ + TickMs])

\* a step of the program itself: a repository call returns, a due timer fires
\* or the clock advances
Runs ==
    \/ LoadBalancesDone
    \/ ActiveStatusDone
    \/ CommitRoundDone
    \/ SaveBalancesDone
    \/ FinishStatusDone
    \/ TimerFire
    \/ TickLive

NextLive ==
    \/ StartLive
    \/ PlaceBid
    \/ Runs

\* the program left to run: as long as a call can return, a timer can fire or
\* the clock can advance, one of them does; requests of the host and of
\* bidders may or may not come
SpecLive == Init /\ [][NextLive]_vars /\ WF_vars(Runs)

(***************************************************************************)
(* BalanceManager on its own: the ledger driven by arbitrary calls          *)
(***************************************************************************)
\* the balances of the records given to loadBalances
SnapshotBalances == {0, 10, 30}

\* the snapshots: arrays of records with distinct user ids, in any order
Snapshots ==
    { << >> }
    \cup { << [user_id |-> u, balance |-> b] >> :
              u \in Users, b \in SnapshotBalances }
    \cup UNION { { << [user_id |-> u, balance |-> b],
                        [user_id |-> v, balance |-> c] >> :
                         v \in Users \ {u},
                         b \in SnapshotBalances, c \in SnapshotBalances } :
                    u \in Users }

\* balanceManager.loadBalances(records)
LedgerLoad ==
    \E records \in Snapshots :
        Apply([St EXCEPT !.balances = loadBalancesLedger(records)])

\* balanceManager.remove(userId, amount)
LedgerRemove ==
    \E userId \in Users, amount \in Amounts :
        /\ removeOk(balances, userId, amount) \in BOOLEAN
        /\ Apply([St EXCEPT !.balances = remove(@, userId, amount)])

\* balanceManager.add(userId, amount)
LedgerAdd ==
    \E userId \in Users, amount \in Amounts :
        /\ get(balances, userId) + amount <= MaxBalance
        /\ Apply([St EXCEPT !.balances = add(@, userId, amount)])

\* saveBalances(balanceManager.exportBalances())
LedgerSave ==
    Apply([St EXCEPT !.dbBalances = saveBalances(@, exportBalances(balances))])

\* balanceManager.loadBalances(await loadBalances())
LedgerReload ==
    Apply([St EXCEPT !.balances = loadBalancesLedger(loadBalances(dbBalances))])

NextLedger ==
    \/ LedgerLoad
    \/ LedgerRemove
    \/ LedgerAdd
    \/ LedgerSave
    \/ LedgerReload

\* the ledger and the users collection driven by arbitrary calls
SpecLedger == Init /\ [][NextLedger]_vars

(***************************************************************************)
(* The derivation of recoverFromDB on its own                              *)
(***************************************************************************)
\* the gift counts of the plans of 1 .. MaxRounds rounds
PlansOfCounts ==
    UNION { [1..n -> 0..MaxGifts] : n \in 1..MaxRounds }

\* recoverFromDB has read a document: its plan, its number of winners, and
\* the locals of the loop before its first iteration
DocFound(counts, winners) ==
    [counts |-> counts, winners |-> winners, i |-> 0,
     winnersCount |-> winners, currentRound |-> 0]

\* the loop of recoverFromDB has ended
WalkEnded(d) == d.i >= Len(d.counts) \/ d.winnersCount <= 0

\* one iteration of the loop of recoverFromDB
WalkStep ==
    /\ ~WalkEnded(doc)
    /\ doc' = [doc EXCEPT !.winnersCount = @ - doc.counts[doc.i + 1],
                          !.currentRound = doc.i + 1,
                          !.i = @ + 1]
    /\ UNCHANGED << currentRound, bids, sortedBids, roundEndTime, roundTimer,
                    isActive, balances, now, timers, flows, dbBalances,
                    dbWinners, dbStatus, events, bIn, bBack, audit >>

NextDerive == WalkStep

InitDerive ==
    /\ InitEngine
    /\ audit = FALSE
    /\ \E counts \in PlansOfCounts, winners \in 0..MaxWinners :
           doc = DocFound(counts, winners)

\* recoverFromDB walking the plan of any document
SpecDerive == InitDerive /\ [][NextDerive]_vars

(***************************************************************************)
(* Properties                                                              *)
(***************************************************************************)
\* the stars of the winners recorded for userId
RECURSIVE StarsWon(_, _)
StarsWon(winners, userId) ==
    IF winners = << >> THEN 0
    ELSE (IF Head(winners).user_id = userId THEN Head(winners).stars ELSE 0)
         + StarsWon(Tail(winners), userId)

\* the sum of the stars of all recorded winners
StarsConsumed(winners) == SumSeq([i \in 1..Len(winners) |-> winners[i].stars])

\* the sum of K_i over the rounds before round (0-based), and over the plan
GiftsBefore(round) == SumSeq([i \in 1..round |-> Plan[i].count_of_gifts])
TotalGifts == GiftsBefore(Len(Plan))

GiftNumbers == {dbWinners[i].gift_number : i \in DOMAIN dbWinners}

\* no invocation of startRound, endRound or endAuction is suspended
Quiescent == flows = EmptyBag

\* C1: while the auction is active and no operation is under way, every user
\* with a live bid has a ledger balance equal to the balance at auction start
\* minus the stars the user has won minus the live bid.
C1_Escrow ==
    (isActive /\ Quiescent) =>
        \A u \in DOMAIN bids :
            get(balances, u)
                = InitialBalances[u] - StarsWon(dbWinners, u) - bids[u].amount

\* C2: when the auction has finished, the balance persisted for every user is
\* the balance at auction start minus the stars of the gifts the user won.
C2_FinalBalances ==
    (dbStatus = "finished" /\ Quiescent) =>
        \A u \in Users :
            dbBalances[u] = InitialBalances[u] - StarsWon(dbWinners, u)

\* C3: when the auction has finished, the total debited by accepted bids
\* equals the total refunded by endAuction plus the stars of all recorded
\* winners.
C3_Conservation ==
    (audit /\ dbStatus = "finished" /\ Quiescent) =>
        bIn = bBack + StarsConsumed(dbWinners)

\* C4: placeBid returns, for every user and amount, the rejection of the first
\* rule that matches in the order NotActive, NonPositive, NotHigher (amount <=
\* live bid, 0 if none), InsufficientFunds (balance < amount - live bid), and
\* accepts with the new amount when none matches.
C4_RejectionOrder ==
    \A u \in Users, a \in Amounts :
        LET c == IF u \in DOMAIN bids THEN bids[u].amount ELSE 0
        IN  placeBid(St, u, a).result =
                IF ~isActive THEN Rejected("NotActive")
                ELSE IF a <= 0 THEN Rejected("NonPositive")
                ELSE IF a <= c THEN Rejected("NotHigher")
                ELSE IF get(balances, u) < a - c THEN Rejected("InsufficientFunds")
                ELSE Accepted(a)

\* an active state where user A holds a live bid of 20: bidding 20 again is
\* NotHigher, 0 is NonPositive, 60 is InsufficientFunds, and B's 10 is accepted
C4_Witness ==
    /\ isActive
    /\ "A" \in DOMAIN bids
    /\ bids["A"].amount = 20
    /\ placeBid(St, "A", 20).result = Rejected("NotHigher")
    /\ placeBid(St, "A", 0).result = Rejected("NonPositive")
    /\ placeBid(St, "A", 60).result = Rejected("InsufficientFunds")
    /\ placeBid(St, "B", 10).result = Accepted(10)

\* C5: a rejected placeBid leaves every part of the state as it was: bids, the
\* leaderboard, the ledger, roundEndTime, the timer, currentRound, isActive.
C5_RejectedChangesNothing ==
    \A u \in Users, a \in Amounts :
        ~placeBid(St, u, a).result.success =>
            [placeBid(St, u, a) EXCEPT !.result = NoResult] = St

\* the seed: A was loaded with 30, holds a live bid of 20 and a ledger balance
\* of 10, and a bid of 60 is rejected with InsufficientFunds
C5_Witness ==
    /\ isActive
    /\ "A" \in DOMAIN bids
    /\ bids["A"].amount = 20
    /\ get(balances, "A") = 10
    /\ placeBid(St, "A", 60).result = Rejected("InsufficientFunds")
    /\ placeBid(St, "A", 60).bids = bids
    /\ placeBid(St, "A", 60).balances = balances

\* C6: bids and the leaderboard hold exactly the same bids in every state.
C6_SameBids ==
    /\ Range(sortedBids) = {bids[u] : u \in DOMAIN bids}
    /\ Len(sortedBids) = Cardinality(DOMAIN bids)

\* C7: the leaderboard holds at most one entry per user, is ordered by amount
\* descending and, among equal amounts, by timestamp ascending; and
\* getLeaderboard(limit) is its first limit entries with positions 1..n.
C7_SortedLeaderboard ==
    /\ \A i, j \in DOMAIN sortedBids :
           i < j =>
               /\ sortedBids[i].userId # sortedBids[j].userId
               /\ \/ sortedBids[i].amount > sortedBids[j].amount
                  \/ /\ sortedBids[i].amount = sortedBids[j].amount
                     /\ sortedBids[i].timestamp <= sortedBids[j].timestamp
    /\ \A limit \in 0..(Len(sortedBids) + 1) :
           LET board == getLeaderboard(sortedBids, limit)
           IN  /\ Len(board) = Min(limit, Len(sortedBids))
               /\ \A i \in DOMAIN board :
                      board[i] = [userId |-> sortedBids[i].userId,
                                  amount |-> sortedBids[i].amount,
                                  position |-> i]

\* two bids of the same amount, the earlier one first
C7_Witness ==
    /\ Len(sortedBids) = 2
    /\ sortedBids[1].amount = sortedBids[2].amount
    /\ sortedBids[1].timestamp < sortedBids[2].timestamp
    /\ getLeaderboard(sortedBids, 1)
           = << [userId |-> sortedBids[1].userId,
                 amount |-> sortedBids[1].amount, position |-> 1] >>

\* C8 as stated: a bid stored for a user is greater than every bid stored for
\* that user before; so a live bid of a recorded winner is greater than the
\* stars the winner was recorded with, which were a stored bid of that user.
C8_NeverLower ==
    \A i \in DOMAIN dbWinners :
        dbWinners[i].user_id \in DOMAIN bids =>
            bids[dbWinners[i].user_id].amount > dbWinners[i].stars

\* C8 amended: from one state to the next a bid that stays live is unchanged
\* or replaced by a bid of a strictly greater amount.
C8_LiveBidOnlyRises ==
    [][\A u \in DOMAIN bids \cap DOMAIN bids' :
           bids'[u] = bids[u] \/ bids'[u].amount > bids[u].amount]_vars

\* A won with 20 and holds a new live bid of 10, which can be raised to 20
\* and cannot be placed again at 10
C8_Witness ==
    /\ \E i \in DOMAIN dbWinners :
           dbWinners[i].user_id = "A" /\ dbWinners[i].stars = 20
    /\ "A" \in DOMAIN bids
    /\ bids["A"].amount = 10
    /\ placeBid(St, "A", 20).result = Accepted(20)
    /\ placeBid(St, "A", 20).bids["A"].amount = 20
    /\ placeBid(St, "A", 10).result = Rejected("NotHigher")

\* C9: closing round r with n live bids and K = plan[r].count_of_gifts hands
\* the winners append exactly min(K, n) winners, the first min(K, n) entries of
\* the leaderboard in order with stars = amount; the entries after them are
\* what stays on the leaderboard and in bids; and the return of the append
\* records those winners and advances currentRound by one, also for n = 0.
C9_RoundOutcome ==
    (isActive /\ currentRound < Len(Plan)) =>
        LET K == Plan[currentRound + 1].count_of_gifts
            n == Cardinality(DOMAIN bids)
            m == Min(K, n)
            closed == endRound(St)
            started == closed.flows (-) flows
            f == CHOOSE x \in BagToSet(started) : TRUE
            after == endRoundCommitted(Resume(closed, f), f.winners)
        IN  /\ BagCardinality(started) = 1
            /\ f.pc = "commitRound"
            /\ Len(f.winners) = m
            /\ \A i \in 1..m :
                   /\ f.winners[i].user_id = sortedBids[i].userId
                   /\ f.winners[i].stars = sortedBids[i].amount
            /\ closed.sortedBids = SubSeq(sortedBids, m + 1, Len(sortedBids))
            /\ DOMAIN closed.bids = {closed.sortedBids[j].userId :
                                        j \in DOMAIN closed.sortedBids}
            /\ \A i \in 1..m, j \in DOMAIN closed.sortedBids :
                   sortedBids[i].amount >= closed.sortedBids[j].amount
            /\ after.dbWinners = dbWinners \o f.winners
            /\ after.currentRound = currentRound + 1

\* round 0 (K = 1) was closed with two live bids: one winner is waiting to be
\* appended and the other bid stays on the leaderboard, ranked below it
C9_Witness ==
    /\ currentRound = 0
    /\ Len(sortedBids) = 1
    /\ \E f \in BagToSet(flows) :
           /\ f.pc = "commitRound"
           /\ Len(f.winners) = 1
           /\ f.winners[1].user_id # sortedBids[1].userId
           /\ f.winners[1].stars >= sortedBids[1].amount

Suspended(pc) == {f \in BagToSet(flows) : f.pc = pc}

\* an endRound is suspended on the winners append
Closing == Suspended("commitRound") # {}

C12_TimerIffActive ==
    /\ isActive => BagCardinality(timers) = 1
    /\ ~isActive => timers = EmptyBag

\* C13: while an endRound is suspended on the winners append, or the
\* startRound that follows a close is suspended on the balance load or the
\* status write, every placeBid is rejected with NotActive.
C13_RejectedWhileClosing ==
    (\/ Closing
     \/ /\ currentRound > 0
        /\ Suspended("loadBalances") \cup Suspended("activeStatus") # {})
    => \A u \in Users, a \in Amounts :
           placeBid(St, u, a).result = Rejected("NotActive")

\* C14: at most one endRound is suspended on the winners append at a time and,
\* each round being closed once, no more closes complete than the plan has
\* rounds.
C14_ClosedOnce ==
    /\ BagCardinality([f \in Suspended("commitRound") |-> CopiesIn(f, flows)]) <= 1
    /\ Len(events.roundEnds) <= Len(Plan)

\* the users in the first K positions of a leaderboard
TopUsers(sorted, K) == {sorted[i].userId : i \in 1..Min(K, Len(sorted))}

\* K of the current round, 0 when the plan has no such round
CurrentK ==
    IF currentRound < Len(Plan) THEN Plan[currentRound + 1].count_of_gifts ELSE 0

\* C15: an accepted placeBid moves roundEndTime exactly when, read before the
\* bid is stored, 0 < roundEndTime - now < 5 s, the leaderboard holds at least
\* K bids and amount > sorted[K-1].amount > 0; roundEndTime is then now + 10 s
\* and the timer is replaced by one due at that time; otherwise roundEndTime,
\* the timer handle and the pending timers are unchanged.
C15_AntiSnipeTrigger ==
    \A u \in Users, a \in Amounts :
        LET returned == placeBid(St, u, a)
            remaining == roundEndTime - now
            trigger == /\ 0 < remaining
                       /\ remaining < 5000
                       /\ CurrentK > 0
                       /\ Len(sortedBids) >= CurrentK
                       /\ a > sortedBids[CurrentK].amount
                       /\ sortedBids[CurrentK].amount > 0
        IN  returned.result.success =>
                IF trigger
                THEN /\ returned.roundEndTime = now + 10000
                     /\ returned.roundEndTime # roundEndTime
                     /\ returned.roundTimer = now + 10000
                     /\ returned.timers = (timers (-) SetToBag({roundTimer}))
                                               (+) SetToBag({now + 10000})
                ELSE /\ returned.roundEndTime = roundEndTime
                     /\ returned.roundTimer = roundTimer
                     /\ returned.timers = timers

\* a late bid has moved the deadline to now + 10 s and the timer with it
C15_Witness ==
    /\ isActive
    /\ bids # EmptyMap
    /\ roundEndTime = now + 10000
    /\ roundTimer = roundEndTime
    /\ timers = SetToBag({roundEndTime})

\* C16: whenever an accepted placeBid moves roundEndTime, the set of users in
\* the top K positions of the leaderboard after the bid differs from the set
\* before it.
C16_ExtensionDisplaces ==
    \A u \in Users, a \in Amounts :
        LET returned == placeBid(St, u, a)
        IN  (returned.result.success /\ returned.roundEndTime # roundEndTime) =>
                TopUsers(returned.sortedBids, CurrentK) # TopUsers(sortedBids, CurrentK)


\* the in-memory state of the engine
EngineState(s) ==
    [bids |-> s.bids, sortedBids |-> s.sortedBids, balances |-> s.balances,
     currentRound |-> s.currentRound, isActive |-> s.isActive,
     roundEndTime |-> s.roundEndTime, roundTimer |-> s.roundTimer]

\* the invocations that operation put to wait: those of after not in before
Awaiting(before, after) == BagToSet(after.flows (-) before.flows)

\* C17: when the repository call an operation waits on fails, the engine's
\* in-memory state is what it was before the operation: for endRound called by
\* a due timer and failing at the append of the winners, and for startRound
\* whose balance load has returned and whose status write fails.
C17_FailedCallChangesNothing ==
    /\ \A due \in BagToSet(timers) :
          due <= now =>
            LET before == [St EXCEPT !.timers = @ (-) SetToBag({due})]
                after == endRound(before)
            IN  \A f \in Awaiting(before, after) :
                    EngineState(rejected(after, f)) = EngineState(before)
    /\ \A g \in Suspended("loadBalances") :
            LET before == Resume(St, g)
                after == startRoundLoaded(before)
            IN  \A f \in Awaiting(before, after) :
                    EngineState(rejected(after, f)) = EngineState(before)


PlanCounts == [i \in 1..Len(Plan) |-> Plan[i].count_of_gifts]

\* C18: the engine registered by recovery of an auction persisted as active has
\* the currentRound derived from the number of persisted winners, and the gift
\* offset it carries is the sum of K_i over the rounds before it.
C18_RecoveredRound ==
    dbStatus = "active" =>
        LET recovered == recoverFromDB(St)
            derived == derivedRound(PlanCounts, Len(dbWinners))
        IN  /\ recovered.currentRound = derived
            /\ getGiftsAwarded(recovered.currentRound) = GiftsBefore(derived)


\* C19: currentRound never exceeds the length of the plan, and once the
\* status finished was written the persisted status stays finished and the
\* engine stays inactive.
C19_StateMachine ==
    /\ currentRound \in 0..Len(Plan)
    /\ events.finished > 0 => (dbStatus = "finished" /\ ~isActive)

\* C20: an engine finishes once: the ledger flush, the write of the status
\* finished and the onAuctionEnd callback each happen at most once.
C20_FinishesOnce ==
    /\ events.flushes <= 1
    /\ events.finished <= 1
    /\ events.auctionEnds <= 1

\* C21: bids accepted one after the other carry strictly increasing
\* timestamps, so no two live bids have the same timestamp.
C21_DistinctTimestamps ==
    \A u, v \in DOMAIN bids :
        u # v => bids[u].timestamp # bids[v].timestamp

\* the one invocation that operation put to wait
TheAwaiting(before, after) == CHOOSE f \in Awaiting(before, after) : TRUE

\* the live bids of the users on a leaderboard
BidsOf(m, sorted) == [u \in TopUsers(sorted, Len(sorted)) |-> m[u]]

endAuctionCompleted(s) ==
    LET ended == endAuction(s)
        f == TheAwaiting(s, ended)
        saved == IF f.pc = "saveBalances"
                 THEN endAuctionSaved(Resume(ended, f), f.records)
                 ELSE ended
        g == TheAwaiting(s, saved)
    IN  endAuctionWritten(Resume(saved, g))

\* what endAuction leaves, done, when it was called in the current state
EndedWell(done) ==
    /\ ~done.isActive
    /\ done.timers = EmptyBag
    /\ done.bids = EmptyMap
    /\ \A u \in Users :
           get(done.balances, u) =
               get(balances, u)
               + (IF u \in DOMAIN bids THEN bids[u].amount ELSE 0)
    /\ \A u \in DOMAIN done.balances :
           u \in DOMAIN done.dbBalances
           /\ done.dbBalances[u] = done.balances[u]
    /\ done.dbStatus = "finished"

\* C23: after endAuction has completed, isActive is false, no timer is
\* pending, no bid is live, every user with a remaining bid got exactly that
\* amount back on the ledger and no other balance changed, the ledger is
\* persisted and the status is finished.  Stated for endAuction as the last
\* close calls it, after the append of the winners of the last round.
C23_EndAuction ==
    /\ \A f \in Suspended("commitRound") :
          currentRound + 1 >= Len(Plan) =>
              EndedWell(endAuctionCompleted(
                  [Resume(St, f) EXCEPT !.currentRound = @ + 1,
                                        !.dbWinners = @ \o f.winners]))
    /\ (~isActive /\ currentRound >= Len(Plan)) =>
          EndedWell(endAuctionCompleted(St))

\* the auction has finished and its last operation refunded a bid: the entry
\* of that bid is still on the leaderboard, which endAuction does not clear
C23_Witness ==
    /\ dbStatus = "finished" /\ Quiescent /\ events.finished = 1
    /\ ~isActive /\ timers = EmptyBag /\ bids = EmptyMap
    /\ sortedBids # << >>
    /\ \A u \in Users : get(balances, u) = dbBalances[u]

\* at most one deadline timer is pending, and it is the one held in roundTimer
OnePendingTimer ==
    /\ BagCardinality(timers) <= 1
    /\ \A due \in BagToSet(timers) : due = roundTimer

\* C24: at most one deadline timer is pending in every reachable state, and
\* it is the timer of the current deadline: a timer armed for a deadline that
\* roundEndTime has since replaced is not left to fire.
C24_NoSupersededFire ==
    /\ OnePendingTimer
    /\ \A due \in BagToSet(timers) : due = roundEndTime

\* C25: endRound called while isActive is false, by a timer that fires after
\* endAuction or by a startRound that finds the deadline passed, changes
\* nothing: no winner, no change of bids, ledger, currentRound or the
\* persisted winners, no callback, no invocation left waiting.
C25_LateTimerNoOp ==
    ~isActive =>
        /\ endRound(St) = St
        /\ \A due \in BagToSet(timers) :
               LET fired == [St EXCEPT !.timers = @ (-) SetToBag({due})]
               IN  endRound(fired) = fired
        /\ \A f \in Suspended("activeStatus") :
               roundEndTime <= now =>
                   startRoundWritten(Resume(St, f)) =
                       [Resume(St, f) EXCEPT
                           !.dbStatus = "active",
                           !.timers = clearTimeout(@, roundTimer)]

\* the auction was ended while a startRound was waiting on its status write,
\* and its deadline has passed: when the write returns scheduleRoundEnd calls
\* endRound, which finds isActive false
C25_Witness ==
    /\ ~isActive
    /\ events.ends > 0
    /\ roundEndTime <= now
    /\ Suspended("activeStatus") # {}

\* C26: remove(u, n) returns true and lowers the balance of u by exactly n
\* when the balance is at least n, and otherwise returns false and leaves the
\* ledger as it is; a user the ledger does not hold counts as balance 0; no
\* other user's balance changes in either case.
C26_ConditionalDebit ==
    \A u \in Users, n \in Amounts :
        LET ok == removeOk(balances, u, n)
            after == remove(balances, u, n)
        IN  /\ ok = (get(balances, u) >= n)
            /\ ok => get(after, u) = get(balances, u) - n
            /\ ~ok => after = balances
            /\ u \notin DOMAIN balances => ok = (n <= 0)
            /\ \A v \in Users \ {u} :
                   /\ get(after, v) = get(balances, v)
                   /\ (v \in DOMAIN after) = (v \in DOMAIN balances)

\* the ledger holds one user with a balance that some debit lowers and some
\* debit refuses, and does not hold the other user
C26_Witness ==
    \E u \in DOMAIN balances, v \in Users \ DOMAIN balances :
        /\ \E n \in Amounts : n > 0 /\ removeOk(balances, u, n)
        /\ \E n \in Amounts : ~removeOk(balances, u, n)
        /\ v # u

\* the user ids of a snapshot
Ids(records) == {records[i].user_id : i \in DOMAIN records}

\* C27: loadBalances(S) replaces the whole ledger, export after it returns
\* exactly the records of S, and saving that export leaves the users
\* collection holding S.
C27_RoundTrip ==
    /\ \A S \in Snapshots :
          LET loaded == loadBalancesLedger(S)
              exported == exportBalances(loaded)
              saved == saveBalances(dbBalances, exported)
          IN  /\ DOMAIN loaded = Ids(S)
              /\ Range(exported) = Range(S)
              /\ Len(exported) = Len(S)
              /\ \A i \in DOMAIN S :
                     S[i].user_id \in DOMAIN dbBalances =>
                         saved[S[i].user_id] = S[i].balance
              /\ \A u \in DOMAIN dbBalances \ Ids(S) : saved[u] = dbBalances[u]
    /\ LET S == loadBalances(dbBalances)
       IN  saveBalances(dbBalances, exportBalances(loadBalancesLedger(S)))
               = dbBalances

\* the ledger was loaded from a snapshot that holds a zero balance and
\* replaced what it held; the users collection holds what was saved
C27_Witness ==
    /\ \E S \in Snapshots : Len(S) = 1 /\ balances = loadBalancesLedger(S)
    /\ \E u \in DOMAIN balances : balances[u] = 0
    /\ \E u \in DOMAIN dbBalances : dbBalances[u] = 0
    /\ dbBalances # InitialBalances

\* the entries of a leaderboard that are not of userId, in order
RECURSIVE Others(_, _)
Others(sorted, userId) ==
    IF sorted = << >> THEN << >>
    ELSE (IF Head(sorted).userId = userId THEN << >> ELSE << Head(sorted) >>)
         \o Others(Tail(sorted), userId)

\* C28: an accepted placeBid(u, a) with previous live bid c (0 if none) lowers
\* the ledger balance of u by exactly a - c, makes bids[u] the bid (u, a, now),
\* leaves on the leaderboard that one entry for u and no old one, and changes
\* neither the bids, leaderboard entries and balances of the other users nor
\* currentRound nor isActive.
C28_AcceptedEffect ==
    \A u \in Users, a \in Amounts :
        LET returned == placeBid(St, u, a)
            c == IF u \in DOMAIN bids THEN bids[u].amount ELSE 0
            bid == [userId |-> u, amount |-> a, timestamp |-> now]
        IN  returned.result.success =>
                /\ get(returned.balances, u) = get(balances, u) - (a - c)
                /\ u \in DOMAIN returned.bids /\ returned.bids[u] = bid
                /\ {i \in DOMAIN returned.sortedBids :
                        returned.sortedBids[i].userId = u}
                   = {i \in DOMAIN returned.sortedBids :
                        returned.sortedBids[i] = bid}
                /\ Cardinality({i \in DOMAIN returned.sortedBids :
                                    returned.sortedBids[i] = bid}) = 1
                /\ Others(returned.sortedBids, u) = Others(sortedBids, u)
                /\ DOMAIN returned.bids = DOMAIN bids \cup {u}
                /\ \A v \in DOMAIN bids \ {u} : returned.bids[v] = bids[v]
                /\ DOMAIN returned.balances = DOMAIN balances \cup {u}
                /\ \A v \in DOMAIN balances \ {u} :
                       returned.balances[v] = balances[v]
                /\ returned.currentRound = currentRound
                /\ returned.isActive = isActive

\* A holds a live bid of 10 placed earlier and 20 on the ledger, B holds a
\* live bid; A's raise to 20 is accepted, costs 10 and puts A's one entry
\* first
C28_Witness ==
    /\ isActive
    /\ DOMAIN bids = {"A", "B"}
    /\ bids["A"].amount = 10 /\ bids["A"].timestamp < now
    /\ get(balances, "A") = 20
    /\ LET returned == placeBid(St, "A", 20)
       IN  /\ returned.result = Accepted(20)
           /\ get(returned.balances, "A") = 10
           /\ Len(returned.sortedBids) = 2
           /\ returned.sortedBids[1] = [userId |-> "A", amount |-> 20,
                                        timestamp |-> now]
           /\ returned.sortedBids[2] = bids["B"]

\* the gifts of the first r rounds of a plan
SumFirst(counts, r) == SumSeq(SubSeq(counts, 1, r))

\* the numbers of rounds whose gifts cover w winners
Covering(counts, w) == {r \in 0..Len(counts) : SumFirst(counts, r) >= w}

\* C29 as stated: for every plan and every number W of persisted winners the
\* walk of recoverFromDB ends with the smallest r such that the first r
\* rounds hold at least W gifts.
C29_SmallestCovering ==
    WalkEnded(doc) =>
        /\ doc.currentRound \in Covering(doc.counts, doc.winners)
        /\ \A r \in Covering(doc.counts, doc.winners) : doc.currentRound <= r

\* C29 amended: that holds when the plan holds at least W gifts; when it
\* holds fewer the walk ends with the length of the plan.  The operator
\* derivedRound computes what the walk ends with.
C29_DerivedRound ==
    /\ WalkEnded(doc) => doc.currentRound = derivedRound(doc.counts, doc.winners)
    /\ LET derived == derivedRound(doc.counts, doc.winners)
           covering == Covering(doc.counts, doc.winners)
       IN  IF covering # {}
           THEN derived \in covering /\ \A r \in covering : derived <= r
           ELSE derived = Len(doc.counts)

\* the walk has ended for the plan [2, 2, 1] with 4 persisted winners, two
\* rounds exactly filled, at round 2
C29_Witness ==
    /\ WalkEnded(doc)
    /\ doc.counts = << 2, 2, 1 >>
    /\ doc.winners = 4
    /\ doc.i = 2
    /\ doc.currentRound = 2

\* C30: onRoundEnd is emitted in the step in which the append of the winners
\* of the round returns, with the index the round had (currentRound before it
\* advances), and currentRound advances in that step; onAuctionEnd is emitted
\* in the step in which the write of the status finished returns, after a
\* flush of the ledger has completed.
C30_Ordering ==
    [][/\ events'.roundEnds # events.roundEnds =>
            \E f \in Suspended("commitRound") :
                /\ events'.roundEnds = Append(events.roundEnds, currentRound)
                /\ dbWinners' = dbWinners \o f.winners
                /\ currentRound' = currentRound + 1
                /\ flows' # flows (-) SetToBag({f})
       /\ events'.auctionEnds # events.auctionEnds =>
            /\ Suspended("finishStatus") # {}
            /\ events'.auctionEnds = events.auctionEnds + 1
            /\ events'.finished = events.finished + 1
            /\ dbStatus' = "finished"
            /\ events.flushes > events.auctionEnds
            /\ events'.roundEnds = events.roundEnds]_vars

\* both rounds were closed with their callbacks 0 and 1, a winner is
\* persisted, and the auction has ended after one flush and one status write
C30_Witness ==
    /\ events.roundEnds = << 0, 1 >>
    /\ Len(dbWinners) >= 1
    /\ events.flushes = 1 /\ events.finished = 1 /\ events.auctionEnds = 1
    /\ dbStatus = "finished"
    /\ Quiescent

\* C31: endRound is entered for the current round only at a time at or after
\* the current roundEndTime: a timer that is due while the engine is active
\* is due at the current deadline, not at one that was replaced.
C31_NotBeforeDeadline ==
    isActive =>
        \A due \in BagToSet(timers) : due <= now => now >= roundEndTime

\* C32: the winners appended to the record after a recovery carry no gift
\* number that occurs among the winners persisted when the process stopped.
C32_UniqueAcrossCrash ==
    events.recoveries > 0 =>
        \A i \in 1..events.persisted, j \in (events.persisted + 1)..Len(dbWinners) :
            dbWinners[i].gift_number # dbWinners[j].gift_number

\* the engine has reached Finished: endAuction ran to its end, the engine is
\* stopped and the record says finished
Finished ==
    /\ events.finished > 0
    /\ dbStatus = "finished"
    /\ ~isActive

\* startRound has been invoked on the engine
startRoundInvoked == flows # EmptyBag \/ dbStatus # "pending"

C34_NoNegativeBalance ==
    /\ \A u \in DOMAIN balances : balances[u] >= 0
    /\ \A u \in DOMAIN dbBalances : dbBalances[u] >= 0

\* the auction has ended after both rounds were closed, and a user who spent
\* the whole balance on a winning bid is left with exactly 0
C34_Witness ==
    /\ events.ends > 0
    /\ Len(events.roundEnds) = Len(Plan)
    /\ \E u \in DOMAIN balances :
           /\ balances[u] = 0
           /\ \E i \in 1..Len(dbWinners) : dbWinners[i].user_id = u


\* C35: within one round the deadline only moves later.  While a round is
\* open (the engine is active and currentRound stays the same), no step
\* lowers roundEndTime, and a placeBid that moves the deadline sets one
\* strictly later than the one it replaces.
C35_DeadlineOnlyLater ==
    [][ /\ (isActive /\ isActive' /\ currentRound' = currentRound)
            => roundEndTime' >= roundEndTime
        /\ \A userId \in Users, amount \in Amounts :
               LET after == placeBid(St, userId, amount).roundEndTime
               IN  after # roundEndTime => after > roundEndTime ]_vars
====
